---- MODULE Spec2Model ----
(***************************************************************************)
(* Model of main_logic/hotkey_capture.py (class KeypressCapture) together  *)
(* with the part of main_logic/window_finder.py it calls.                  *)
(*                                                                         *)
(* One handler thread is the pynput listener thread: it runs on_press for  *)
(* one key event at a time.  The main thread runs KeypressCapture.run.     *)
(* Every statement of the handler that touches shared state is one step,   *)
(* so that the scope of `with self._lock` is visible in the model.         *)
(* Time is time.perf_counter() in milliseconds.  The capture timestamp of  *)
(* _save_frame (time.time()) is a second clock that no transition reads;   *)
(* it is left out of the artifact record.                                  *)
(***************************************************************************)
EXTENDS Integers, Sequences, FiniteSets, TLC

\* ---------------------------------------------------------------- bounds
MaxEvents == 5
MaxClock == 240
NumThreads == 2
MaxConcEvents == 2
MaxFairEvents == 3
MaxWindows == 3
MaxGrabs == 2
MaxWinEvents == 4

\* ----------------------------------------------------- program constants
DebounceMs == 80
CropSize == 26
MaxPosition == 4
WrapPosition == 2
DefaultRetries == 5

\* Clock resolution of the model: one debounce interval, so that two readings
\* are either less than 80 ms apart (equal) or at least 80 ms apart.
TickMs == DebounceMs

Threads == 1..NumThreads
Listener == 1
NoThread == 0

KeyNames == {"alt", "q", "e"}
AltKeys == {"alt_l", "alt_r", "alt"}
CharKeys == {"q", "Q", "e", "E", "x"}
Keys == AltKeys \cup CharKeys \cup {"esc", "shift"}
\* One key for each branch of on_press.
ConcKeys == {"alt_l", "q", "E", "x", "esc"}

\* self._crop_coords: position -> (x, y)
CropCoords == [p \in {1, 2, 3} |->
                 IF p = 1 THEN <<39, 943>>
                 ELSE IF p = 2 THEN <<97, 943>> ELSE <<155, 943>>]

\* client_bbox values find_window can leave in self.info: (left, top, width, height)
BBoxes == {<<0, 0, 0, 0>>, <<0, 0, 100, 1000>>, <<0, 0, 1920, 1080>>}
Delays == {0, TickMs}
InitClocks == {0, DebounceMs}

NoFrame == <<>>
NoPrev == [pos |-> 0, total |-> 0]

\* The simulated event sequence [Alt, Q, Q, Q]
Script == <<"alt", "q", "q", "q">>

VARIABLES
  cycle_position,     \* self._cycle_position
  total_screenshots,  \* self._total_screenshots
  running,            \* self._running
  last_ts,            \* self._last_ts
  lock,               \* holder of self._lock, NoThread when free
  info_bbox,          \* self.info.client_bbox
  delay,              \* self.post_press_delay_ms
  clock,              \* time.perf_counter(), ms
  listener,           \* "new" | "running" | "stopped": the keyboard.Listener
  mainpc,             \* position of the main thread in run()
  pc,                 \* position of each handler thread
  key,                \* on_press: the physical key
  keyname,            \* _handle_keypress: keyname
  now,                \* _handle_keypress: now
  tmp,                \* value loaded by an in-place `+= 1`
  cycle_pos,          \* _handle_keypress: cycle_pos
  frame,              \* _handle_keypress: frame / cropped, as (height, width)
  total_idx,          \* _save_frame: total_idx
  outcome,            \* how the handler ended (the line it logged)
  saved,              \* files written to save_dir, in write order
  nevents,            \* key events delivered so far
  prev,               \* history: cycle position and counter when _get_cycle_position took the lock
  acc_time,           \* history: time of the last accepted event per keyname, -1 if none
  bare,               \* history: accepted advances so far, -1 once an alt was accepted
  script,             \* history: events of Script handled without debounce or failure, else -1
  upc,                \* position in the window utilities / capture_runner.run
  caller,             \* who runs them: "mss" | "win32" | other backend name | "hotkey"
  title_contains,     \* find_window: title_contains
  all_hwnds,          \* find_window: all_hwnds, each with what the OS reports for it
  hwnd,               \* find_window: hwnd (index into all_hwnds), 0 if none
  rect,               \* the client rectangle as the running function last read it
  info,               \* the WindowInfo returned by find_window, None, or NoInfo
  retries,            \* ensure_foreground: retries
  attempts,           \* ensure_foreground: iterations of the for loop so far
  ef_last,            \* ensure_foreground: how the latest iteration ended
  fg,                 \* ensure_foreground: the value returned, "none" before it returns
  bbox,               \* capture_runner.run: bbox
  grabs,              \* monitors handed to MSSCapture.grab, in call order
  renders,            \* Win32ClientCapture.grab: PrintWindow calls as [flag, result]
  ret                 \* how capture_runner.run / KeypressCapture() ended, "none" before

vars == <<cycle_position, total_screenshots, running, last_ts, lock, info_bbox,
          delay, clock, listener, mainpc, pc, key, keyname, now, tmp, cycle_pos,
          frame, total_idx, outcome, saved, nevents, prev, acc_time, bare,
          script, upc, caller, title_contains, all_hwnds, hwnd, rect, info,
          retries, attempts, ef_last, fg, bbox, grabs, renders, ret>>

shared == <<cycle_position, total_screenshots, running, last_ts, lock, saved>>
config == <<info_bbox, delay>>
mainv == <<listener, mainpc>>
locals == <<key, keyname, now, tmp, cycle_pos, frame, total_idx, prev>>
accepts == <<acc_time, bare>>
findv == <<title_contains, all_hwnds, hwnd, rect, info>>
efv == <<retries, attempts, ef_last, fg>>
capv == <<bbox, grabs, renders>>
winv == <<upc, caller, findv, efv, capv, ret>>
hotv == <<shared, delay, clock, listener, pc, locals, outcome, nevents,
          accepts, script>>

NoBBox == <<0, 0, 0, 0>>
\* info before find_window has returned, and find_window's None
NoInfo == [hwnd |-> -1]
None == [hwnd |-> 0]

\* The window utilities at rest: nothing called, nothing returned.
WinInit ==
  /\ upc = "idle"
  /\ caller = "none"
  /\ title_contains = <<>>
  /\ all_hwnds = <<>>
  /\ hwnd = 0
  /\ rect = NoBBox
  /\ info = NoInfo
  /\ retries = 0
  /\ attempts = 0
  /\ ef_last = "none"
  /\ fg = "none"
  /\ bbox = NoBBox
  /\ grabs = <<>>
  /\ renders = <<>>
  /\ ret = "none"

\* ------------------------------------------------------------------ Init
Init ==
  /\ cycle_position = 0
  /\ total_screenshots = 0
  /\ running = TRUE
  /\ last_ts = [k \in KeyNames |-> 0]
  /\ lock = NoThread
  /\ info_bbox \in BBoxes
  /\ delay \in Delays
  /\ clock \in InitClocks
  /\ listener = "new"
  /\ mainpc = "start"
  /\ pc = [t \in Threads |-> "idle"]
  /\ key = [t \in Threads |-> "none"]
  /\ keyname = [t \in Threads |-> "none"]
  /\ now = [t \in Threads |-> 0]
  /\ tmp = [t \in Threads |-> 0]
  /\ cycle_pos = [t \in Threads |-> 0]
  /\ frame = [t \in Threads |-> NoFrame]
  /\ total_idx = [t \in Threads |-> 0]
  /\ outcome = [t \in Threads |-> "none"]
  /\ saved = <<>>
  /\ nevents = 0
  /\ prev = [t \in Threads |-> NoPrev]
  /\ acc_time = [k \in KeyNames |-> -1]
  /\ bare = 0
  /\ script = 0
  /\ WinInit

Goto(t, l) == pc' = [pc EXCEPT ![t] = l]

\* The step of thread t goes on to label l inside the handler.
Continue(t, l) ==
  /\ Goto(t, l)
  /\ UNCHANGED <<outcome, script>>

ScriptNext(s, k, o) ==
  IF /\ s >= 0
     /\ s < Len(Script)
     /\ k = Script[s + 1]
     /\ o \in {"saved", "skipped"}
    THEN s + 1
    ELSE -1

\* _handle_keypress returns (or raises into on_press) with outcome o.
Return(t, o) ==
  /\ Goto(t, "return")
  /\ outcome' = [outcome EXCEPT ![t] = o]
  /\ script' = ScriptNext(script, keyname[t], o)

\* ------------------------------------------------------------- the clock
\* perf_counter() is read in HkDebounce only: the time that passes anywhere
\* else is accounted for before that read.
Tick ==
  /\ \E t \in Threads : pc[t] = "hk_debounce"
  /\ clock + TickMs <= MaxClock
  /\ clock' = clock + TickMs
  /\ UNCHANGED <<shared, config, winv, mainv, pc, locals, outcome, nevents, accepts, script>>

\* ----------------------------------------------------------- main thread
\* with keyboard.Listener(on_press=self.on_press) as listener
MainStart ==
  /\ mainpc = "start"
  /\ listener' = "running"
  /\ mainpc' = "loop"
  /\ UNCHANGED <<shared, config, winv, clock, pc, locals, outcome, nevents, accepts, script>>

\* while self._running: time.sleep(0.05)
MainLoop ==
  /\ mainpc = "loop"
  /\ ~running
  /\ mainpc' = "stop"
  /\ UNCHANGED <<shared, config, winv, clock, listener, pc, locals, outcome, nevents,
                 accepts, script>>

\* Mutant: the loop is left without stopping the listener.
MainStop_NoStop ==
  /\ mainpc = "stop"
  /\ mainpc' = "join"
  /\ UNCHANGED <<shared, config, winv, clock, listener, pc, locals, outcome, nevents,
                 accepts, script>>

\* listener.stop()
MainStop ==
  /\ mainpc = "stop"
  /\ listener' = "stopped"
  /\ mainpc' = "join"
  /\ UNCHANGED <<shared, config, winv, clock, pc, locals, outcome, nevents, accepts, script>>

\* leaving the with block joins the listener thread
MainJoin ==
  /\ mainpc = "join"
  /\ \A t \in Threads : pc[t] = "idle"
  /\ mainpc' = "done"
  /\ UNCHANGED <<shared, config, winv, clock, listener, pc, locals, outcome, nevents,
                 accepts, script>>

\* ------------------------------------------------------ listener thread
\* pynput calls on_press(key) on the listener thread.
Deliver(t, k) ==
  /\ listener = "running"
  /\ pc[t] = "idle"
  /\ nevents < MaxEvents
  /\ nevents' = nevents + 1
  /\ key' = [key EXCEPT ![t] = k]
  /\ Continue(t, "on_press")
  /\ UNCHANGED <<shared, config, winv, clock, mainv, keyname, now, tmp, cycle_pos,
                 frame, total_idx, prev, accepts>>

\* key.char.lower()
Lower(k) == IF k = "Q" THEN "q" ELSE IF k = "E" THEN "e" ELSE k

\* on_press: the dispatch on the key; the StopIteration raised after ESC is
\* caught by on_press's own `except Exception`.
OnPress(t) ==
  /\ pc[t] = "on_press"
  /\ IF key[t] \in CharKeys
       THEN IF Lower(key[t]) \in {"q", "e"}
              THEN /\ keyname' = [keyname EXCEPT ![t] = Lower(key[t])]
                   /\ Continue(t, "hk_debounce")
                   /\ UNCHANGED running
              ELSE /\ Return(t, "ignored")
                   /\ UNCHANGED <<running, keyname>>
       ELSE IF key[t] \in AltKeys
              THEN /\ keyname' = [keyname EXCEPT ![t] = "alt"]
                   /\ Continue(t, "hk_debounce")
                   /\ UNCHANGED running
              ELSE IF key[t] = "esc"
                     THEN /\ running' = FALSE
                          /\ Return(t, "quit")
                          /\ UNCHANGED keyname
                     ELSE /\ Return(t, "ignored")
                          /\ UNCHANGED <<running, keyname>>
  /\ UNCHANGED <<cycle_position, total_screenshots, last_ts, lock, saved,
                 config, winv, clock, mainv, key, now, tmp, cycle_pos, frame,
                 total_idx, prev, nevents, accepts>>

\* on_press: return None
OnReturn(t) ==
  /\ pc[t] = "return"
  /\ Goto(t, "idle")
  /\ key' = [key EXCEPT ![t] = "none"]
  /\ keyname' = [keyname EXCEPT ![t] = "none"]
  /\ now' = [now EXCEPT ![t] = 0]
  /\ tmp' = [tmp EXCEPT ![t] = 0]
  /\ cycle_pos' = [cycle_pos EXCEPT ![t] = 0]
  /\ frame' = [frame EXCEPT ![t] = NoFrame]
  /\ total_idx' = [total_idx EXCEPT ![t] = 0]
  /\ prev' = [prev EXCEPT ![t] = NoPrev]
  /\ outcome' = [outcome EXCEPT ![t] = "none"]
  /\ UNCHANGED <<shared, config, winv, clock, mainv, nevents, accepts, script>>

\* Mutant: the boundary is taken as a duplicate too.
Debounced_Inclusive(n, last) == (n - last) <= DebounceMs

\* (now - last) < self._debounce_s
Debounced(n, last) == (n - last) < DebounceMs

\* Mutant: the cycle tracker is advanced before the debounce test.
HkDebounce_AdvanceFirst(t) ==
  /\ pc[t] = "hk_debounce"
  /\ now' = [now EXCEPT ![t] = clock]
  /\ IF Debounced(clock, last_ts[keyname[t]])
       THEN /\ Return(t, "debounced")
            /\ cycle_position' = IF keyname[t] = "alt" THEN 1
                                  ELSE IF cycle_position >= MaxPosition
                                         THEN WrapPosition
                                         ELSE cycle_position + 1
       ELSE /\ Continue(t, "hk_stamp")
            /\ UNCHANGED cycle_position
  /\ UNCHANGED <<total_screenshots, running, last_ts, lock, saved,
                 config, winv, clock, mainv, key, keyname, tmp, cycle_pos,
                 frame, total_idx, prev, nevents, accepts>>

\* _handle_keypress: now = perf_counter(); the debounce test.
HkDebounce(t) ==
  /\ pc[t] = "hk_debounce"
  /\ now' = [now EXCEPT ![t] = clock]
  /\ IF Debounced(clock, last_ts[keyname[t]])
       THEN Return(t, "debounced")
       ELSE Continue(t, "hk_stamp")
  /\ UNCHANGED <<shared, config, winv, clock, mainv, key, keyname, tmp, cycle_pos,
                 frame, total_idx, prev, nevents, accepts>>

\* Mutant: Q and E share one timestamp.
HkStamp_Shared(t) ==
  /\ pc[t] = "hk_stamp"
  /\ last_ts' = [k \in KeyNames |->
                   IF k = keyname[t] \/ {k, keyname[t]} = {"q", "e"}
                     THEN now[t] ELSE last_ts[k]]
  /\ acc_time' = [acc_time EXCEPT ![keyname[t]] = now[t]]
  /\ bare' = IF keyname[t] = "alt" \/ bare < 0 THEN -1 ELSE bare + 1
  /\ Continue(t, "hk_sleep")
  /\ UNCHANGED <<cycle_position, total_screenshots, running, lock, saved,
                 config, winv, clock, mainv, locals, nevents>>

\* self._last_ts[keyname] = now
HkStamp(t) ==
  /\ pc[t] = "hk_stamp"
  /\ last_ts' = [last_ts EXCEPT ![keyname[t]] = now[t]]
  /\ acc_time' = [acc_time EXCEPT ![keyname[t]] = now[t]]
  /\ bare' = IF keyname[t] = "alt" \/ bare < 0 THEN -1 ELSE bare + 1
  /\ Continue(t, "hk_sleep")
  /\ UNCHANGED <<cycle_position, total_screenshots, running, lock, saved,
                 config, winv, clock, mainv, locals, nevents>>

\* time.sleep(self.post_press_delay_ms / 1000.0) when the delay is positive
HkSleep(t) ==
  /\ pc[t] = "hk_sleep"
  /\ IF delay > 0
       THEN /\ clock + delay <= MaxClock
            /\ clock' = clock + delay
       ELSE UNCHANGED clock
  /\ Continue(t, "gcp_acquire")
  /\ UNCHANGED <<shared, config, winv, mainv, locals, nevents, accepts>>

\* Mutant: the body runs without waiting for the lock.
GcpAcquire_NoWait(t) ==
  /\ pc[t] = "gcp_acquire"
  /\ lock' = t
  /\ prev' = [prev EXCEPT ![t] = [pos |-> cycle_position, total |-> total_screenshots]]
  /\ Continue(t, "gcp_set")
  /\ UNCHANGED <<cycle_position, total_screenshots, running, last_ts, saved,
                 config, winv, clock, mainv, key, keyname, now, tmp, cycle_pos, frame,
                 total_idx, nevents, accepts>>

\* _get_cycle_position: with self._lock
GcpAcquire(t) ==
  /\ pc[t] = "gcp_acquire"
  /\ lock = NoThread
  /\ lock' = t
  /\ prev' = [prev EXCEPT ![t] = [pos |-> cycle_position, total |-> total_screenshots]]
  /\ Continue(t, "gcp_set")
  /\ UNCHANGED <<cycle_position, total_screenshots, running, last_ts, saved,
                 config, winv, clock, mainv, key, keyname, now, tmp, cycle_pos, frame,
                 total_idx, nevents, accepts>>

\* Mutant: Alt starts a cycle only when none is under way.
GcpSetAlt_KeepCycle(t) ==
  /\ pc[t] = "gcp_set"
  /\ keyname[t] = "alt"
  /\ cycle_position' = IF cycle_position = 0 THEN 1 ELSE cycle_position
  /\ Continue(t, "gcp_return")
  /\ UNCHANGED <<total_screenshots, running, last_ts, lock, saved, config, winv,
                 clock, mainv, locals, nevents, accepts>>

\* keyname == "alt": self._cycle_position = 1
GcpSetAlt(t) ==
  /\ pc[t] = "gcp_set"
  /\ keyname[t] = "alt"
  /\ cycle_position' = 1
  /\ Continue(t, "gcp_return")
  /\ UNCHANGED <<total_screenshots, running, last_ts, lock, saved, config, winv,
                 clock, mainv, locals, nevents, accepts>>

\* self._cycle_position += 1: the load
GcpLoad(t) ==
  /\ pc[t] = "gcp_set"
  /\ keyname[t] # "alt"
  /\ tmp' = [tmp EXCEPT ![t] = cycle_position]
  /\ Continue(t, "gcp_store")
  /\ UNCHANGED <<shared, config, winv, clock, mainv, key, keyname, now, cycle_pos,
                 frame, total_idx, prev, nevents, accepts>>

\* self._cycle_position += 1: the store
GcpStore(t) ==
  /\ pc[t] = "gcp_store"
  /\ cycle_position' = tmp[t] + 1
  /\ Continue(t, "gcp_wrap")
  /\ UNCHANGED <<total_screenshots, running, last_ts, lock, saved, config, winv,
                 clock, mainv, locals, nevents, accepts>>

\* Mutant: after the fourth position the cycle starts over at 1.
GcpWrap_ToOne(t) ==
  /\ pc[t] = "gcp_wrap"
  /\ IF cycle_position > MaxPosition
       THEN cycle_position' = 1
       ELSE UNCHANGED cycle_position
  /\ Continue(t, "gcp_return")
  /\ UNCHANGED <<total_screenshots, running, last_ts, lock, saved, config, winv,
                 clock, mainv, locals, nevents, accepts>>

\* if self._cycle_position > 4: self._cycle_position = 2
GcpWrap(t) ==
  /\ pc[t] = "gcp_wrap"
  /\ IF cycle_position > MaxPosition
       THEN cycle_position' = WrapPosition
       ELSE UNCHANGED cycle_position
  /\ Continue(t, "gcp_return")
  /\ UNCHANGED <<total_screenshots, running, last_ts, lock, saved, config, winv,
                 clock, mainv, locals, nevents, accepts>>

\* return self._cycle_position, leaving the with block
GcpReturn(t) ==
  /\ pc[t] = "gcp_return"
  /\ cycle_pos' = [cycle_pos EXCEPT ![t] = cycle_position]
  /\ lock' = NoThread
  /\ Continue(t, "hk_skip")
  /\ UNCHANGED <<cycle_position, total_screenshots, running, last_ts, saved,
                 config, winv, clock, mainv, key, keyname, now, tmp, frame, total_idx,
                 prev, nevents, accepts>>

\* Mutant: the save-all-four variant, position 4 is captured like the others.
HkSkip_SaveAll(t) ==
  /\ pc[t] = "hk_skip"
  /\ Continue(t, "grab")
  /\ UNCHANGED <<shared, config, winv, clock, mainv, locals, nevents, accepts>>

\* if cycle_pos == 4: return
HkSkip(t) ==
  /\ pc[t] = "hk_skip"
  /\ IF cycle_pos[t] = MaxPosition
       THEN Return(t, "skipped")
       ELSE Continue(t, "grab")
  /\ UNCHANGED <<shared, config, winv, clock, mainv, locals, nevents, accepts>>

\* --------------------------------------------------------------- capture
\* Mutant: only a negative extent is refused.
BBoxInvalid_Strict(b) == b[3] < 0 \/ b[4] < 0

\* get_capture_bbox: raises when w <= 0 or h <= 0
BBoxInvalid(b) == b[3] <= 0 \/ b[4] <= 0

\* np.asarray(screenshot)[..., :3]: a frame of shape (height, width)
FrameOf(b) == <<b[4], b[3]>>

\* Mutant: a failed grab puts the cycle position back.
SafeGrab_Rollback(t) ==
  /\ pc[t] = "grab"
  /\ \/ /\ Return(t, "nograb")
        /\ cycle_position' = prev[t].pos
        /\ UNCHANGED frame
     \/ /\ ~BBoxInvalid(info_bbox)
        /\ frame' = [frame EXCEPT ![t] = FrameOf(info_bbox)]
        /\ Continue(t, "crop")
        /\ UNCHANGED cycle_position
  /\ UNCHANGED <<total_screenshots, running, last_ts, lock, saved, config, winv,
                 clock, mainv, key, keyname, now, tmp, cycle_pos, total_idx,
                 prev, nevents, accepts>>

\* Mutant: a failed grab ends the dispatch loop.
SafeGrab_Stops(t) ==
  /\ pc[t] = "grab"
  /\ \/ /\ Return(t, "nograb")
        /\ running' = FALSE
        /\ UNCHANGED frame
     \/ /\ ~BBoxInvalid(info_bbox)
        /\ frame' = [frame EXCEPT ![t] = FrameOf(info_bbox)]
        /\ Continue(t, "crop")
        /\ UNCHANGED running
  /\ UNCHANGED <<cycle_position, total_screenshots, last_ts, lock, saved,
                 config, winv, clock, mainv, key, keyname, now, tmp, cycle_pos,
                 total_idx, prev, nevents, accepts>>

\* _safe_grab, and `if frame is None: return`.  sct.grab is called only once
\* get_capture_bbox has returned; any exception gives None.
SafeGrab(t) ==
  /\ pc[t] = "grab"
  /\ \/ /\ BBoxInvalid(info_bbox)
        /\ Return(t, "nograb")
        /\ UNCHANGED frame
     \/ /\ ~BBoxInvalid(info_bbox)
        /\ Return(t, "nograb")
        /\ UNCHANGED frame
     \/ /\ ~BBoxInvalid(info_bbox)
        /\ frame' = [frame EXCEPT ![t] = FrameOf(info_bbox)]
        /\ Continue(t, "crop")
  /\ UNCHANGED <<shared, config, winv, clock, mainv, key, keyname, now, tmp,
                 cycle_pos, total_idx, prev, nevents, accepts>>

\* _crop_frame returns a crop (not None)
CropOk(f, p) ==
  /\ p \in DOMAIN CropCoords
  /\ ~(\/ CropCoords[p][2] + CropSize > f[1]
       \/ CropCoords[p][1] + CropSize > f[2])

\* _crop_frame, and `if cropped is None: return`
CropFrame(t) ==
  /\ pc[t] = "crop"
  /\ IF CropOk(frame[t], cycle_pos[t])
       THEN /\ frame' = [frame EXCEPT ![t] = <<CropSize, CropSize>>]
            /\ Continue(t, "sf_acquire")
       ELSE /\ Return(t, "nocrop")
            /\ UNCHANGED frame
  /\ UNCHANGED <<shared, config, winv, clock, mainv, key, keyname, now, tmp,
                 cycle_pos, total_idx, prev, nevents, accepts>>

\* ------------------------------------------------------------ _save_frame
\* with self._lock
SfAcquire(t) ==
  /\ pc[t] = "sf_acquire"
  /\ lock = NoThread
  /\ lock' = t
  /\ Continue(t, "sf_load")
  /\ UNCHANGED <<cycle_position, total_screenshots, running, last_ts, saved,
                 config, winv, clock, mainv, locals, nevents, accepts>>

\* self._total_screenshots += 1: the load
SfLoad(t) ==
  /\ pc[t] = "sf_load"
  /\ tmp' = [tmp EXCEPT ![t] = total_screenshots]
  /\ Continue(t, "sf_store")
  /\ UNCHANGED <<shared, config, winv, clock, mainv, key, keyname, now, cycle_pos,
                 frame, total_idx, prev, nevents, accepts>>

\* self._total_screenshots += 1: the store
SfStore(t) ==
  /\ pc[t] = "sf_store"
  /\ total_screenshots' = tmp[t] + 1
  /\ Continue(t, "sf_read")
  /\ UNCHANGED <<cycle_position, running, last_ts, lock, saved, config, winv, clock,
                 mainv, locals, nevents, accepts>>

\* Mutant: the index is the value from before the increment.
SfRead_Stale(t) ==
  /\ pc[t] = "sf_read"
  /\ total_idx' = [total_idx EXCEPT ![t] = tmp[t]]
  /\ lock' = NoThread
  /\ Continue(t, "sf_write")
  /\ UNCHANGED <<cycle_position, total_screenshots, running, last_ts, saved,
                 config, winv, clock, mainv, key, keyname, now, tmp, cycle_pos, frame,
                 prev, nevents, accepts>>

\* Mutant: the index is self._counter, which nothing increments.
SfRead_UnusedCounter(t) ==
  /\ pc[t] = "sf_read"
  /\ total_idx' = [total_idx EXCEPT ![t] = 0]
  /\ lock' = NoThread
  /\ Continue(t, "sf_write")
  /\ UNCHANGED <<cycle_position, total_screenshots, running, last_ts, saved,
                 config, winv, clock, mainv, key, keyname, now, tmp, cycle_pos, frame,
                 prev, nevents, accepts>>

\* Mutant: cv2.imwrite is called inside the with block.
SfRead_Hold(t) ==
  /\ pc[t] = "sf_read"
  /\ total_idx' = [total_idx EXCEPT ![t] = total_screenshots]
  /\ Continue(t, "sf_write")
  /\ UNCHANGED <<cycle_position, total_screenshots, running, last_ts, lock, saved,
                 config, winv, clock, mainv, key, keyname, now, tmp, cycle_pos, frame,
                 prev, nevents, accepts>>

\* total_idx = self._total_screenshots, leaving the with block
SfRead(t) ==
  /\ pc[t] = "sf_read"
  /\ total_idx' = [total_idx EXCEPT ![t] = total_screenshots]
  /\ lock' = NoThread
  /\ Continue(t, "sf_write")
  /\ UNCHANGED <<cycle_position, total_screenshots, running, last_ts, saved,
                 config, winv, clock, mainv, key, keyname, now, tmp, cycle_pos, frame,
                 prev, nevents, accepts>>

\* The file {cycle_pos}_{keyname}_{ts}_{total_idx:04d}.png
Artifact(t) == [pos |-> cycle_pos[t], key |-> keyname[t], idx |-> total_idx[t]]

\* Mutant: a failed write gives its sequence number back.
ImWrite_Rollback(t) ==
  /\ pc[t] = "sf_write"
  /\ \/ /\ saved' = Append(saved, Artifact(t))
        /\ Return(t, "saved")
        /\ UNCHANGED total_screenshots
     \/ /\ UNCHANGED saved
        /\ Return(t, "writefail")
        /\ total_screenshots' = total_screenshots - 1
  /\ UNCHANGED <<cycle_position, running, last_ts, lock,
                 config, winv, clock, mainv, locals, nevents, accepts>>

\* cv2.imwrite(str(path), frame): the file is written, or the write fails
ImWrite(t) ==
  /\ pc[t] = "sf_write"
  /\ \/ /\ saved' = Append(saved, Artifact(t))
        /\ Return(t, "saved")
     \/ /\ UNCHANGED saved
        /\ Return(t, "writefail")
  /\ UNCHANGED <<cycle_position, total_screenshots, running, last_ts, lock,
                 config, winv, clock, mainv, locals, nevents, accepts>>

\* ------------------------------------------------------- window utilities
\* str.lower() on the letters that occur in the titles
LowerChar(c) ==
  IF c = "M" THEN "m" ELSE IF c = "T" THEN "t" ELSE IF c = "A" THEN "a" ELSE c

LowerStr(s) == [i \in 1..Len(s) |-> LowerChar(s[i])]

\* n in s, for strings
Contains(n, s) ==
  \E i \in 0..(Len(s) - Len(n)) : SubSeq(s, i + 1, i + Len(n)) = n

\* GetWindowText raised
NoText == <<"error">>
Titles == {<<"M", "t", "a">>, <<"t", "A">>}
Needles == {<<"m", "T">>, <<"T", "a">>}

\* What the OS reports for one top-level window.
Window == [title : Titles \cup {NoText}, visible : BOOLEAN, minimized : BOOLEAN]

\* _enum_windows(): the top-level windows in enumeration order
WindowLists == UNION {[1..n -> Window] : n \in 0..MaxWindows}

\* GetClientRect / ClientToScreen failed
Unreadable == <<>>
RectReplies == BBoxes \cup {<<0, 0, 0, 600>>, Unreadable}

Backends == {"mss", "win32", "gdi"}
Retries == {0, 1, DefaultRetries}
\* PrintWindow's BOOL result
PwReplies == {0, 1}
\* PrintWindow flags in the order tried
RenderFlags == <<3, 2, 1>>

\* _match_title
MatchTitle(w, needle) ==
  IF w.title = NoText
    THEN FALSE
    ELSE Contains(LowerStr(needle), LowerStr(w.title))

\* matches = [h for h in all_hwnds if _match_title(h, title_contains)]
Matches(ws, needle) ==
  SelectSeq([i \in 1..Len(ws) |-> i], LAMBDA i : MatchTitle(ws[i], needle))

\* usable = [h for h in matches if _is_visible(h) and not _is_minimized(h)]
Usable(ws, m) ==
  SelectSeq(m, LAMBDA i : ws[i].visible /\ ~ws[i].minimized)

\* Mutant: the first match is taken whatever its visibility.
Selected_FirstMatch(ws, needle) == Matches(ws, needle)[1]

\* hwnd = usable[0] if len(usable) > 0 else matches[0]
Selected(ws, needle) ==
  LET m == Matches(ws, needle)
      u == Usable(ws, m)
  IN  IF Len(u) > 0 THEN u[1] ELSE m[1]

\* Mutant: unreadable geometry is left as it is, for the caller to see.
ClientBBox_Raises(r) == r

\* try: bbox = _get_client_rect_screen(hwnd) / except Exception: bbox = (0, 0, 0, 0)
ClientBBox(r) == IF r = Unreadable THEN NoBBox ELSE r

\* capture_runner.run(backend, title_contains, ...) is entered.
RunnerStart(b, n) ==
  /\ upc = "idle"
  /\ mainpc = "new"
  /\ caller' = b
  /\ title_contains' = n
  /\ upc' = "fw_enum"
  /\ UNCHANGED <<hotv, info_bbox, mainpc, all_hwnds, hwnd, rect, info, efv,
                 capv, ret>>

\* KeypressCapture(title_contains, ...) is entered.
HotkeyNew(n) ==
  /\ upc = "idle"
  /\ mainpc = "new"
  /\ caller' = "hotkey"
  /\ title_contains' = n
  /\ upc' = "fw_enum"
  /\ mainpc' = "init"
  /\ UNCHANGED <<hotv, info_bbox, all_hwnds, hwnd, rect, info, efv, capv, ret>>

\* ensure_foreground(hwnd, retries) called on its own.
EnsureCall(r) ==
  /\ upc = "idle"
  /\ mainpc = "new"
  /\ caller' = "ensure"
  /\ retries' = r
  /\ upc' = "ef_try"
  /\ UNCHANGED <<hotv, info_bbox, mainpc, findv, attempts, ef_last, fg, capv, ret>>

\* find_window: all_hwnds = _enum_windows()
FwEnum ==
  /\ upc = "fw_enum"
  /\ \E ws \in WindowLists : all_hwnds' = ws
  /\ upc' = "fw_select"
  /\ UNCHANGED <<hotv, info_bbox, mainpc, caller, title_contains, hwnd, rect,
                 info, efv, capv, ret>>

\* find_window: matches, `if not matches: return None` (the caller then
\* raises SystemExit), usable, hwnd, and the call of _get_client_rect_screen
FwSelect ==
  /\ upc = "fw_select"
  /\ IF Matches(all_hwnds, title_contains) = <<>>
       THEN /\ info' = None
            /\ all_hwnds' = <<>>
            /\ ret' = "SystemExit"
            /\ upc' = "done"
            /\ UNCHANGED <<hwnd, rect>>
       ELSE /\ hwnd' = Selected(all_hwnds, title_contains)
            /\ \E r \in RectReplies : rect' = r
            /\ upc' = "fw_rect"
            /\ UNCHANGED <<info, all_hwnds, ret>>
  /\ UNCHANGED <<hotv, info_bbox, mainpc, caller, title_contains, efv, capv>>

\* find_window: the client rectangle, and return WindowInfo(...)
FwRect ==
  /\ upc = "fw_rect"
  /\ info' = [hwnd |-> hwnd,
              title |-> all_hwnds[hwnd].title,
              is_visible |-> all_hwnds[hwnd].visible,
              is_minimized |-> all_hwnds[hwnd].minimized,
              client_bbox |-> ClientBBox(rect)]
  /\ all_hwnds' = <<>>
  /\ hwnd' = 0
  /\ upc' = "found"
  /\ UNCHANGED <<hotv, info_bbox, mainpc, caller, title_contains, rect, efv,
                 capv, ret>>

\* capture_runner.run: the dispatch on backend
RunBackend ==
  /\ upc = "found"
  /\ caller # "hotkey"
  /\ IF caller = "mss"
       THEN /\ retries' = DefaultRetries
            /\ upc' = "ef_try"
            /\ UNCHANGED ret
       ELSE IF caller = "win32"
              THEN /\ upc' = "w32_read"
                   /\ UNCHANGED <<retries, ret>>
              ELSE /\ ret' = "SystemExit"
                   /\ upc' = "done"
                   /\ UNCHANGED retries
  /\ UNCHANGED <<hotv, info_bbox, mainpc, caller, findv, attempts, ef_last, fg, capv>>

\* KeypressCapture.__init__: self.info = info; if bring_foreground: ...
HotkeyInfo ==
  /\ upc = "found"
  /\ caller = "hotkey"
  /\ info_bbox' = info.client_bbox
  /\ \E bring_foreground \in BOOLEAN :
       IF bring_foreground
         THEN /\ retries' = DefaultRetries
              /\ upc' = "ef_try"
              /\ UNCHANGED <<mainpc, ret>>
         ELSE /\ upc' = "done"
              /\ mainpc' = "start"
              /\ ret' = "constructed"
              /\ UNCHANGED retries
  /\ UNCHANGED <<hotv, caller, findv, attempts, ef_last, fg, capv>>

EfOutcomes == {"fg", "notfg", "raise"}

\* Mutant: an OS error leaves ensure_foreground as an exception.
EfResult_Propagates(o) == IF o = "fg" THEN "True" ELSE "raised"

\* `return True` inside the loop, `return False` from the except clause
EfResult(o) == IF o = "fg" THEN "True" ELSE "False"

\* ensure_foreground: one iteration of `for _ in range(retries)`, or the
\* `return False` after the loop
EfTry ==
  /\ upc = "ef_try"
  /\ IF attempts < retries
       THEN \E o \in EfOutcomes :
              /\ attempts' = attempts + 1
              /\ ef_last' = o
              /\ IF o = "notfg"
                   THEN UNCHANGED <<fg, upc>>
                   ELSE /\ fg' = EfResult(o)
                        /\ upc' = "ef_ret"
       ELSE /\ fg' = "False"
            /\ upc' = "ef_ret"
            /\ UNCHANGED <<attempts, ef_last>>
  /\ UNCHANGED <<hotv, info_bbox, mainpc, caller, findv, retries, capv, ret>>

\* ensure_foreground has returned to its caller, which does not keep the value
EfReturn ==
  /\ upc = "ef_ret"
  /\ retries' = 0
  /\ attempts' = 0
  /\ ef_last' = "none"
  /\ fg' = "none"
  /\ IF caller = "mss"
       THEN /\ upc' = "bbox"
            /\ UNCHANGED <<mainpc, ret>>
       ELSE IF caller = "hotkey"
              THEN /\ upc' = "done"
                   /\ mainpc' = "start"
                   /\ ret' = "constructed"
              ELSE /\ upc' = "done"
                   /\ ret' = "returned"
                   /\ UNCHANGED mainpc
  /\ UNCHANGED <<hotv, info_bbox, caller, findv, capv>>

\* capture_runner.run: bbox = get_capture_bbox(info)
RunBBox ==
  /\ upc = "bbox"
  /\ IF BBoxInvalid(info.client_bbox)
       THEN /\ ret' = "Invalid client bbox"
            /\ upc' = "done"
            /\ UNCHANGED bbox
       ELSE /\ bbox' = info.client_bbox
            /\ upc' = "grab"
            /\ UNCHANGED ret
  /\ UNCHANGED <<hotv, info_bbox, mainpc, caller, findv, efv, grabs, renders>>

\* capture_runner.run: cap.grab(bbox), once or again and again in the preview
RunGrab ==
  /\ upc = "grab"
  /\ grabs' = Append(grabs, bbox)
  /\ \E preview \in BOOLEAN :
       IF preview /\ Len(grabs) + 1 < MaxGrabs
         THEN UNCHANGED <<upc, ret>>
         ELSE /\ upc' = "done"
              /\ ret' = "returned"
  /\ UNCHANGED <<hotv, info_bbox, mainpc, caller, findv, efv, bbox, renders>>

\* Win32ClientCapture._client_size: GetClientRect
W32Read ==
  /\ upc = "w32_read"
  /\ \E r \in RectReplies : rect' = r
  /\ upc' = "w32_size"
  /\ UNCHANGED <<hotv, info_bbox, mainpc, caller, title_contains, all_hwnds, hwnd,
                 info, efv, capv, ret>>

\* Win32ClientCapture.grab: w, h = self._client_size() and the size test
W32Size ==
  /\ upc = "w32_size"
  /\ IF rect = Unreadable
       THEN /\ ret' = "GetClientRect failed"
            /\ upc' = "done"
       ELSE IF rect[3] <= 0 \/ rect[4] <= 0
              THEN /\ ret' = "Zero-sized client area"
                   /\ upc' = "done"
              ELSE /\ upc' = "w32_render"
                   /\ UNCHANGED ret
  /\ UNCHANGED <<hotv, info_bbox, mainpc, caller, findv, efv, capv>>

\* Mutant: every flag is tried, the last result counts.
RenderStops_Never(r, n) == n = Len(RenderFlags)

\* `if result != 1:` guards the next PrintWindow call
RenderStops(r, n) == r = 1 \/ n = Len(RenderFlags)

\* Win32ClientCapture.grab: one PrintWindow call
W32Render ==
  /\ upc = "w32_render"
  /\ \E r \in PwReplies :
       /\ renders' = Append(renders, [flag |-> RenderFlags[Len(renders) + 1],
                                      result |-> r])
       /\ upc' = IF RenderStops(r, Len(renders) + 1) THEN "w32_finish" ELSE "w32_render"
  /\ UNCHANGED <<hotv, info_bbox, mainpc, caller, findv, efv, bbox, grabs, ret>>

\* Win32ClientCapture.grab: `if result != 1: raise`, else return img
W32Finish ==
  /\ upc = "w32_finish"
  /\ ret' = IF renders[Len(renders)].result # 1
              THEN "PrintWindow failed"
              ELSE "returned"
  /\ upc' = "done"
  /\ UNCHANGED <<hotv, info_bbox, mainpc, caller, findv, efv, capv>>

WinUtil ==
  \/ FwEnum \/ FwSelect \/ FwRect
  \/ RunBackend \/ HotkeyInfo
  \/ EfTry \/ EfReturn
  \/ RunBBox \/ RunGrab
  \/ W32Read \/ W32Size \/ W32Render \/ W32Finish

\* ------------------------------------------------------- specifications
Handler(t) ==
  \/ OnPress(t) \/ OnReturn(t)
  \/ HkDebounce(t) \/ HkStamp(t) \/ HkSleep(t)
  \/ GcpAcquire(t) \/ GcpSetAlt(t) \/ GcpLoad(t) \/ GcpStore(t)
  \/ GcpWrap(t) \/ GcpReturn(t) \/ HkSkip(t)
  \/ SafeGrab(t) \/ CropFrame(t)
  \/ SfAcquire(t) \/ SfLoad(t) \/ SfStore(t) \/ SfRead(t) \/ ImWrite(t)

Main == MainStart \/ MainLoop \/ MainStop \/ MainJoin

\* The listener thread delivers key events serially.
Next ==
  \/ Tick
  \/ Main
  \/ \E k \in Keys : Deliver(Listener, k)
  \/ Handler(Listener)

Spec == Init /\ [][Next]_vars

\* Key handlers entered concurrently, one per thread: on_press called from
\* more than one thread.  Timing and geometry play no part here: no sleep, a
\* frozen clock, a client area that holds every crop.
InitConc ==
  /\ Init
  /\ delay = 0
  /\ clock = DebounceMs
  /\ \A p \in DOMAIN CropCoords : CropOk(FrameOf(info_bbox), p)

NextConc ==
  \/ Main
  \/ \E t \in Threads, k \in ConcKeys : nevents < MaxConcEvents /\ Deliver(t, k)
  \/ \E t \in Threads : Handler(t)

SpecConc == InitConc /\ [][NextConc]_vars

\* run() with the main thread scheduled fairly: whenever the main thread can
\* take its next step it eventually does.  Nothing is assumed of the keyboard
\* or of the listener thread.
NextFair ==
  \/ Tick
  \/ Main
  \/ \E k \in ConcKeys : nevents < MaxFairEvents /\ Deliver(Listener, k)
  \/ Handler(Listener)

SpecFair == Init /\ [][NextFair]_vars /\ WF_vars(Main)

\* The programs from their first line: capture_runner.run, KeypressCapture()
\* followed by its run() for as long as no Escape is pressed, or
\* ensure_foreground alone.  No settle delay.
InitWin ==
  /\ cycle_position = 0
  /\ total_screenshots = 0
  /\ running = TRUE
  /\ last_ts = [k \in KeyNames |-> 0]
  /\ lock = NoThread
  /\ info_bbox = NoBBox
  /\ delay = 0
  /\ clock = DebounceMs
  /\ listener = "new"
  /\ mainpc = "new"
  /\ pc = [t \in Threads |-> "idle"]
  /\ key = [t \in Threads |-> "none"]
  /\ keyname = [t \in Threads |-> "none"]
  /\ now = [t \in Threads |-> 0]
  /\ tmp = [t \in Threads |-> 0]
  /\ cycle_pos = [t \in Threads |-> 0]
  /\ frame = [t \in Threads |-> NoFrame]
  /\ total_idx = [t \in Threads |-> 0]
  /\ outcome = [t \in Threads |-> "none"]
  /\ saved = <<>>
  /\ nevents = 0
  /\ prev = [t \in Threads |-> NoPrev]
  /\ acc_time = [k \in KeyNames |-> -1]
  /\ bare = 0
  /\ script = 0
  /\ WinInit

WinKeys == {"alt_l", "q"}

NextWin ==
  \/ \E b \in Backends, n \in Needles : RunnerStart(b, n)
  \/ \E n \in Needles : HotkeyNew(n)
  \/ \E r \in Retries : EnsureCall(r)
  \/ WinUtil
  \/ Tick
  \/ MainStart
  \/ \E k \in WinKeys : nevents < MaxWinEvents /\ Deliver(Listener, k)
  \/ Handler(Listener)

SpecWin == InitWin /\ [][NextWin]_vars

\* ================================================================ claims
\* The Cycle Tracker's transition rule as the specification words it.
CycleNext(p, k) ==
  IF k = "alt" THEN 1
  ELSE IF p + 1 > MaxPosition THEN WrapPosition ELSE p + 1

Failures == {"nograb", "nocrop", "writefail"}
InLock == {"gcp_set", "gcp_store", "gcp_wrap", "gcp_return",
           "sf_load", "sf_store", "sf_read"}

\* C1: whatever the cycle position was, when _get_cycle_position returns for
\* an accepted Alt event the cycle position is 1 and the value returned is 1.
C1_AltResetsToOne ==
  \A t \in Threads :
    (pc[t] = "hk_skip" /\ keyname[t] = "alt")
      => (cycle_position = 1 /\ cycle_pos[t] = 1)

\* C1 witness: an Alt event has just been given position 1 from position 4.
C1_Witness ==
  \E t \in Threads :
    /\ pc[t] = "hk_skip"
    /\ keyname[t] = "alt"
    /\ prev[t].pos = MaxPosition
    /\ cycle_pos[t] = 1

\* C2: from a fresh dispatcher, with no Alt accepted so far, the n-th accepted
\* Q/E event is given position 2,3,4,2,3,4,...: the first one position 2.
C2_BareAdvancesStartAtTwo ==
  \A t \in Threads :
    (pc[t] = "hk_skip" /\ bare >= 1)
      => cycle_pos[t] = WrapPosition + ((bare - 1) % (MaxPosition - WrapPosition + 1))

\* C3 as stated: after the events [Alt, Q, Q, Q], all handled without debounce
\* or failure, four artifacts are saved, labelled 1,2,3,4, with strictly
\* increasing sequence numbers.
C3_FourArtifacts ==
  script = Len(Script)
    => /\ Len(saved) = 4
       /\ \A i \in 1..Len(saved) : saved[i].pos = i
       /\ \A i, j \in 1..Len(saved) : i < j => saved[i].idx < saved[j].idx

\* C3 amended: after the events [Alt, Q, Q, Q], all handled without debounce
\* or failure, exactly three artifacts are saved, labelled 1,2,3 with sequence
\* numbers 1,2,3; the fourth event is given position 4 and is skipped.
C3_ThreeArtifactsFourthSkipped ==
  script = Len(Script)
    => /\ Len(saved) = 3
       /\ \A i \in 1..Len(saved) :
            /\ saved[i].pos = i
            /\ saved[i].idx = i
            /\ saved[i].key = Script[i]
       /\ nevents = Len(Script) =>
            /\ cycle_position = MaxPosition
            /\ total_screenshots = 3
            /\ \A t \in Threads :
                 pc[t] = "return" => (outcome[t] = "skipped" /\ cycle_pos[t] = MaxPosition)

\* C3 witness: the fourth event of the script has just returned.
C3_Witness ==
  /\ script = Len(Script)
  /\ pc[Listener] = "return"
  /\ Len(saved) = 3

\* C4: an event of a key name handled less than 80 ms after the last accepted
\* event of that name is discarded before any position, capture or save; one
\* handled 80 ms or more after it is accepted; and the timestamp of a name is
\* the time of its last accepted event, untouched by discarded events.
C4_Debounce ==
  /\ \A t \in Threads :
       /\ (pc[t] = "return" /\ outcome[t] = "debounced")
            => /\ cycle_pos[t] = 0
               /\ frame[t] = NoFrame
               /\ total_idx[t] = 0
               /\ prev[t] = NoPrev
               /\ acc_time[keyname[t]] >= 0
                    => now[t] - acc_time[keyname[t]] < DebounceMs
       /\ (pc[t] = "hk_stamp" /\ acc_time[keyname[t]] >= 0)
            => now[t] - acc_time[keyname[t]] >= DebounceMs
  /\ \A k \in KeyNames :
       last_ts[k] = IF acc_time[k] >= 0 THEN acc_time[k] ELSE 0

\* C4 witness: a Q event is discarded after two Q events were accepted and saved.
C4_Witness ==
  \E t \in Threads :
    /\ pc[t] = "return"
    /\ outcome[t] = "debounced"
    /\ keyname[t] = "q"
    /\ Len(SelectSeq(saved, LAMBDA a : a.key = "q")) >= 2

\* C5 as stated: an E event is not accepted less than 80 ms after an accepted Q
\* event, nor a Q event less than 80 ms after an accepted E event.
C5_SharedAdvanceDebounce ==
  \A t \in Threads :
    (pc[t] = "hk_stamp" /\ keyname[t] \in {"q", "e"})
      => \A k \in {"q", "e"} :
           acc_time[k] >= 0 => now[t] - acc_time[k] >= DebounceMs

\* C5 amended: Q and E are debounced separately, each against the last accepted
\* event of its own name: a Q/E event is discarded only if less than 80 ms have
\* passed since the last accepted event of the same key (or since time 0 when
\* there is none), whatever the other key's last accepted time.
C5_PerKeyDebounce ==
  \A t \in Threads :
    (pc[t] = "return" /\ outcome[t] = "debounced" /\ keyname[t] \in {"q", "e"})
      => IF acc_time[keyname[t]] >= 0
           THEN now[t] - acc_time[keyname[t]] < DebounceMs
           ELSE now[t] < DebounceMs

\* C5 witness: an E event is accepted less than 80 ms after an accepted Q event.
C5_Witness ==
  \E t \in Threads :
    /\ pc[t] = "hk_stamp"
    /\ keyname[t] = "e"
    /\ acc_time["q"] >= 0
    /\ now[t] - acc_time["q"] < DebounceMs

\* C6: in every step the sequence numbers of the saved artifacts are strictly
\* increasing in save order (so no two are equal) and the total-screenshot
\* counter does not decrease.
C6_SequenceStrictlyIncreasing ==
  [][
    /\ total_screenshots' >= total_screenshots
    /\ \A i, j \in 1..Len(saved') : i < j => saved'[i].idx < saved'[j].idx
  ]_vars

\* C6 witness: two artifacts are saved around a write that failed.
C6_Witness ==
  /\ Len(saved) = 2
  /\ saved[1].idx = 1
  /\ saved[2].idx = 3

\* C7 as stated: at the capture attempt, and after a grab that failed, both the
\* cycle position and the total-screenshot counter have been updated for the event.
C7_PositionAndCounterBeforeCapture ==
  \A t \in Threads :
    (pc[t] = "grab" \/ (pc[t] = "return" /\ outcome[t] = "nograb"))
      => /\ cycle_pos[t] = CycleNext(prev[t].pos, keyname[t])
         /\ cycle_position = cycle_pos[t]
         /\ total_screenshots = prev[t].total + 1

\* C7 amended: at the capture attempt, and after a grab that failed, the cycle
\* position has been updated for the event and is not rolled back; the
\* total-screenshot counter is untouched (it is incremented in _save_frame only,
\* after a successful capture and crop).
C7_PositionBeforeCaptureCounterAtSave ==
  \A t \in Threads :
    (pc[t] = "grab" \/ (pc[t] = "return" /\ outcome[t] = "nograb"))
      => /\ cycle_pos[t] = CycleNext(prev[t].pos, keyname[t])
         /\ cycle_position = cycle_pos[t]
         /\ total_screenshots = prev[t].total

\* C7 witness: the grab for an event that moved the position from 2 to 3 failed.
C7_Witness ==
  \E t \in Threads :
    /\ pc[t] = "return"
    /\ outcome[t] = "nograb"
    /\ prev[t].pos = 2
    /\ cycle_pos[t] = 3

\* C8: a handler that fails (no frame, no crop, or the write fails) leaves the
\* running flag, the listener, the cycle position and the counter as they are
\* and returns to the listener, which is idle again; the cycle position changes
\* nowhere but in _get_cycle_position; and every event accepted afterwards is
\* given the position that follows the one it found.
C8_FailureIsolated ==
  [][
    /\ \A t \in Threads :
         (pc[t] # "return" /\ pc'[t] = "return" /\ outcome'[t] \in Failures)
           => /\ running' = running
              /\ listener' = listener
              /\ mainpc' = mainpc
              /\ cycle_position' = cycle_position
              /\ total_screenshots' = total_screenshots
              /\ lock' = lock
    /\ \A t \in Threads :
         (pc[t] = "return" /\ outcome[t] \in Failures /\ pc'[t] # "return")
           => /\ pc'[t] = "idle"
              /\ running' = running
              /\ cycle_position' = cycle_position
              /\ total_screenshots' = total_screenshots
    /\ (cycle_position' # cycle_position)
         => (\E t \in Threads : pc[t] \in {"gcp_set", "gcp_store", "gcp_wrap"})
    /\ \A t \in Threads :
         (pc[t] = "gcp_return" /\ pc'[t] = "hk_skip")
           => cycle_pos'[t] = CycleNext(prev[t].pos, keyname[t])
  ]_vars

\* C8 witness: the first event was given position 1 and saved nothing (it
\* failed); the second event has just been given position 2, the listener and
\* the running flag being as before.
C8_Witness ==
  /\ nevents = 2
  /\ pc[Listener] = "hk_skip"
  /\ prev[Listener].pos = 1
  /\ cycle_pos[Listener] = 2
  /\ saved = <<>>
  /\ running
  /\ listener = "running"

\* C9: a thread that is about to grab a frame or to write a file does not hold
\* the lock.
C9_NoLockDuringCaptureOrWrite ==
  \A t \in Threads : pc[t] \in {"grab", "crop", "sf_write"} => lock # t

\* C9 witness: one thread writes its file while another holds the lock.
C9_Witness ==
  \E t, u \in Threads :
    /\ t # u
    /\ pc[t] = "sf_write"
    /\ lock = u

\* C10: the cycle position and the counter are read and written only by the
\* thread that holds the lock; between a handler's load and store nothing
\* else changes them; the position a handler is given is the one that follows
\* the position it found when it took the lock; and while the lock is free the
\* cycle position is a position of the cycle.
C10_LockedTransitionsAtomic ==
  /\ \A t \in Threads : pc[t] \in InLock => lock = t
  /\ \A t \in Threads :
       /\ pc[t] = "gcp_store" => tmp[t] = cycle_position
       /\ pc[t] = "sf_store" => tmp[t] = total_screenshots
       /\ pc[t] = "sf_read" => total_screenshots = tmp[t] + 1
       /\ pc[t] = "hk_skip" => cycle_pos[t] = CycleNext(prev[t].pos, keyname[t])
  /\ \A t, u \in Threads :
       (t # u /\ pc[t] = "sf_write" /\ pc[u] = "sf_write")
         => total_idx[t] # total_idx[u]
  /\ \A i \in 1..Len(saved) : \A t \in Threads :
       pc[t] = "sf_write" => saved[i].idx # total_idx[t]
  /\ \A i, j \in 1..Len(saved) : i # j => saved[i].idx # saved[j].idx
  /\ lock = NoThread => cycle_position \in 0..MaxPosition

\* C10 witness: one thread is inside _get_cycle_position while another waits
\* for the lock to enter it.
C10_Witness ==
  \E t, u \in Threads :
    /\ t # u
    /\ pc[t] \in {"gcp_store", "gcp_wrap"}
    /\ pc[u] = "gcp_acquire"

SameLetter(a, b) == LowerChar(a) = LowerChar(b)

\* Window w has a title, and it contains n case-insensitively.
TitleHas(w, n) ==
  /\ w.title # NoText
  /\ \E off \in 0..(Len(w.title) - Len(n)) :
       \A j \in 1..Len(n) : SameLetter(w.title[off + j], n[j])

Least(S) == CHOOSE i \in S : \A j \in S : i <= j

\* C12: find_window returns None exactly when no enumerated window has a
\* title containing the substring case-insensitively; otherwise it selects
\* the first match in enumeration order that is visible and not minimized,
\* or the first match when no match is both, and returns that window.
C12_FindWindowSelection ==
  [][
    /\ (upc = "fw_select") =>
         LET M == {i \in 1..Len(all_hwnds) : TitleHas(all_hwnds[i], title_contains)}
             U == {i \in M : all_hwnds[i].visible /\ ~all_hwnds[i].minimized}
         IN  /\ (info' = None) <=> (M = {})
             /\ (M # {}) => /\ info' = NoInfo
                            /\ hwnd' = IF U # {} THEN Least(U) ELSE Least(M)
    /\ (upc = "fw_rect") => /\ info'.hwnd = hwnd
                            /\ info'.is_visible = all_hwnds[hwnd].visible
                            /\ info'.is_minimized = all_hwnds[hwnd].minimized
  ]_vars

C12_Witness ==
  /\ upc = "fw_rect"
  /\ Len(all_hwnds) = 3
  /\ hwnd = 3
  /\ ~TitleHas(all_hwnds[1], title_contains)
  /\ TitleHas(all_hwnds[2], title_contains)
  /\ all_hwnds[2].visible
  /\ all_hwnds[2].minimized
  /\ all_hwnds[3].title = <<"M", "t", "a">>
  /\ title_contains = <<"T", "a">>

\* A box of non-positive width or height.
NonPositive(b) == ~(b[3] > 0 /\ b[4] > 0)

HasInfo == info # NoInfo /\ info # None

\* C13: with a client bbox of width <= 0 or height <= 0, get_capture_bbox
\* raises; the runner's region-copy backend and the hotkey _safe_grab both
\* pass through it before they grab, so the runner ends with the error and
\* no grab, the key handler gets no frame, and no monitor handed to a grab
\* has a non-positive width or height.
C13_NoGrabOfEmptyBox ==
  /\ \A i \in 1..Len(grabs) : ~NonPositive(grabs[i])
  /\ (caller = "mss" /\ HasInfo /\ NonPositive(info.client_bbox) /\ upc \in {"grab", "done"})
       => (ret = "Invalid client bbox" /\ upc = "done" /\ grabs = <<>>)
  /\ \A t \in Threads :
       /\ (frame[t] # NoFrame) => ~NonPositive(info_bbox)
       /\ (NonPositive(info_bbox) /\ pc[t] = "return" /\ keyname[t] # "none"
            /\ outcome[t] \notin {"debounced", "skipped"})
           => outcome[t] = "nograb"

C13_Witness ==
  /\ caller = "mss"
  /\ upc = "done"
  /\ HasInfo
  /\ info.client_bbox = <<0, 0, 0, 600>>
  /\ ret = "Invalid client bbox"
  /\ grabs = <<>>

\* A key event that passed the debounce test and got its cycle position.
Accepted(t) == pc[t] = "return" /\ outcome[t] \notin {"ignored", "quit", "debounced"}

GrabEnded == caller = "win32" /\ HasInfo /\ upc = "done"

Succeeded(i) == renders[i].result = 1

C16_EnsureForegroundBounded ==
  /\ attempts <= retries
  /\ fg \in {"none", "True", "False"}
  /\ (upc = "ef_try") => (fg = "none" /\ ef_last \in {"none", "notfg"})
  /\ (upc = "ef_ret") =>
       /\ fg \in {"True", "False"}
       /\ (fg = "True") <=> (attempts >= 1 /\ ef_last = "fg")
       /\ (ef_last = "raise") => fg = "False"
       /\ (ef_last \in {"none", "notfg"}) => (attempts = retries /\ fg = "False")

C16_Witness ==
  /\ upc = "ef_ret"
  /\ retries = DefaultRetries
  /\ attempts = DefaultRetries
  /\ fg = "True"

\* Labels of a handler that has been through _get_cycle_position's update.
Positioned == {"gcp_wrap", "gcp_return", "hk_skip", "grab", "crop", "sf_acquire",
               "sf_load", "sf_store", "sf_read", "sf_write"}

\* The position is 0 only while no accepted event has been given a position.
ZeroOnlyAtStart ==
  /\ (\E t \in Threads : pc[t] \in Positioned) => cycle_position # 0
  /\ (cycle_position = 0) =>
       /\ total_screenshots = 0
       /\ saved = <<>>
       /\ \A t \in Threads : cycle_pos[t] = 0 /\ outcome[t] \notin {"skipped"} \cup Failures

\* An accepted Q/E event that found position p is given p + 1 when p < 4,
\* and 2 when p = 4.
AdvanceMap ==
  \A t \in Threads :
    (pc[t] = "hk_skip" /\ keyname[t] \in {"q", "e"}) =>
      /\ cycle_pos[t] = cycle_position
      /\ prev[t].pos < 4 => cycle_pos[t] = prev[t].pos + 1
      /\ prev[t].pos = 4 => cycle_pos[t] = 2

Capturing == {"grab", "crop", "sf_acquire", "sf_load", "sf_store", "sf_read",
              "sf_write"}

\* C18: an accepted event that is given cycle position 4 captures nothing
\* and saves nothing: it never reaches the capture, holds no frame and takes
\* no sequence number, and while it is handled the saved files stay as they
\* are; it has advanced the cycle position from 3 to 4 and left the counter
\* as it found it; every saved artifact is labeled 1, 2 or 3.
C18_PositionFourSkipped ==
  /\ [](\A i \in 1..Len(saved) : saved[i].pos \in {1, 2, 3})
  /\ [](\A t \in Threads :
         /\ (cycle_pos[t] = 4) =>
              /\ pc[t] \notin Capturing
              /\ frame[t] = NoFrame
              /\ total_idx[t] = 0
              /\ pc[t] = "return" => outcome[t] = "skipped"
         /\ (pc[t] = "return" /\ outcome[t] = "skipped") =>
              /\ cycle_pos[t] = 4
              /\ prev[t].pos = 3
              /\ cycle_position = 4
              /\ total_screenshots = prev[t].total)
  /\ [][(\E t \in Threads : cycle_pos[t] = 4) => saved' = saved]_vars

C18_Witness ==
  /\ pc[Listener] = "return"
  /\ outcome[Listener] = "skipped"
  /\ Len(saved) = 3
  /\ total_screenshots = 3

\* How an event without effect ends: discarded by the debounce test, or a
\* key that on_press has no branch for.
Discarded == {"debounced", "ignored"}

\* After the step every handler is idle, has not yet passed the debounce
\* test, or has ended as a discarded event.
NothingAccepted ==
  \A t \in Threads :
    \/ pc'[t] \in {"idle", "on_press", "hk_debounce"}
    \/ pc'[t] = "return" /\ outcome'[t] \in Discarded

\* C19: a key event that is debounced, or whose key is none of Alt, Q, E,
\* Escape, changes nothing of the dispatcher from its delivery to its return:
\* cycle position, counter, debounce timestamps, running flag and saved files
\* stay as they were, and the event holds no position, frame or sequence
\* number; a key other than Alt, Q, E, Escape always ends that way.
C19_DiscardedEventsChangeNothing ==
  /\ [][
       NothingAccepted =>
         UNCHANGED <<cycle_position, total_screenshots, last_ts, running, saved, lock>>
     ]_vars
  /\ [](\A t \in Threads :
         (pc[t] = "return") =>
           /\ (outcome[t] \in Discarded) =>
                /\ cycle_pos[t] = 0
                /\ frame[t] = NoFrame
                /\ total_idx[t] = 0
           /\ (outcome[t] = "ignored") <=> (key[t] \in {"x", "shift"})
           /\ (outcome[t] = "debounced") =>
                (now[t] - last_ts[keyname[t]]) < DebounceMs)

C19_Witness ==
  /\ pc[Listener] = "return"
  /\ outcome[Listener] = "debounced"
  /\ cycle_position = 3
  /\ total_screenshots = 2
  /\ running

\* Handlers that have taken a sequence number and not yet ended their write.
InFlight == Cardinality({t \in Threads : pc[t] \in {"sf_read", "sf_write"}})

\* Sequence numbers taken by writes that have failed.
Lost == total_screenshots - Len(saved) - InFlight

\* An event that ended without reaching _save_frame.
NoSaveAttempt == {"debounced", "skipped", "nograb", "nocrop"}

\* The counter moves by one, in the step of _save_frame that stores it, and
\* nowhere else; a sequence number is lost exactly in a write that fails.
CounterCountsAttempts ==
  [][
    /\ (total_screenshots' # total_screenshots) =>
         /\ total_screenshots' = total_screenshots + 1
         /\ \E t \in Threads : pc[t] = "sf_store" /\ pc'[t] = "sf_read"
    /\ (\E t \in Threads : pc[t] = "sf_store" /\ pc'[t] = "sf_read") =>
         total_screenshots' = total_screenshots + 1
    /\ Lost' = Lost + (IF \E t \in Threads : pc[t] = "sf_write" /\ outcome'[t] = "writefail"
                         THEN 1 ELSE 0)
  ]_vars

\* An event that ends without a save attempt has taken no sequence number.
NoAttemptNoNumber ==
  \A t \in Threads :
    (pc[t] = "return" /\ outcome[t] \in NoSaveAttempt) =>
      /\ total_idx[t] = 0
      /\ outcome[t] # "debounced" => total_screenshots = prev[t].total

\* C20 as claimed: the k-th artifact written carries sequence number k; the
\* counter is the number of save attempts; events that are debounced,
\* skipped or fail in capture or crop take no sequence number.
C20_Gapless ==
  /\ [](\A k \in 1..Len(saved) : saved[k].idx = k)
  /\ CounterCountsAttempts
  /\ []NoAttemptNoNumber

\* What the sequence numbers of the saved files do follow.
NumbersFollowAttempts ==
  /\ Lost >= 0
  /\ \A k \in 1..Len(saved) : saved[k].idx \in k..(k + Lost)
  /\ \A j \in 1..(Len(saved) - 1) : saved[j].idx < saved[j + 1].idx
  /\ (Len(saved) > 0) => saved[Len(saved)].idx <= total_screenshots
  /\ (Lost = 0) => \A i \in 1..Len(saved) : saved[i].idx = i

\* C20, amended: the counter is the number of save attempts; the k-th
\* artifact written carries sequence number k plus the number of writes that
\* failed before it, so the numbers are gapless as long as no write has
\* failed and each failed write leaves a gap of one; events that are
\* debounced, skipped or fail in capture or crop take no sequence number.
C20_GaplessButForFailedWrites ==
  /\ []NumbersFollowAttempts
  /\ CounterCountsAttempts
  /\ []NoAttemptNoNumber

C20_Witness ==
  /\ Len(saved) = 2
  /\ saved[1].idx = 1
  /\ saved[2].idx = 3
  /\ total_screenshots = 4
  /\ Lost = 2
  /\ pc[Listener] = "return"
  /\ outcome[Listener] = "writefail"

\* C21: once an Escape event has been processed (the running flag is false)
\* no later key event changes the cycle position or adds a saved file, and
\* the listener thread takes no further Alt, Q or E event into
\* _handle_keypress.
C21_NothingAfterEscape ==
  [][
    (~running) =>
      /\ cycle_position' = cycle_position
      /\ saved' = saved
      /\ \A t \in Threads :
           ~(pc[t] = "on_press" /\ pc'[t] = "hk_debounce")
  ]_vars

====
